---- MODULE Spec2Model ----
(***************************************************************************)
(* BigBlueButton telegraf input plugin: the Gather cycle.                  *)
(*                                                                         *)
(* Three Gather implementations live in the sources:                       *)
(*   impl = "record"  Gather of unnamed/part_003 (Record, NewRecordFrom,   *)
(*                    GetMetadataRecords, MetadataStruct of api.go)        *)
(*   impl = "metric"  Gather of bigbluebutton.go (processMeetings,         *)
(*                    processRecordings, MeetingsMetric of model.go)       *)
(*   impl = "staged"  Gatherv2 of bigbluebutton.go, the Gather of          *)
(*                    unnamed/part_004 (gatherMeetings, gatherRecordings,  *)
(*                    gatherAPIStatus: one measurement per stage)          *)
(* All share Init, xmlToMap and the HTTP helper api.                       *)
(***************************************************************************)
EXTENDS Integers, Sequences, FiniteSets, TLC

VARIABLES
    input,    \* argument handed to a function called on its own
    output,   \* what that call produced
    impl,     \* which Gather implementation this plugin instance runs
    keys,     \* b.GatherByMetadata
    secretKey, \* b.SecretKey
    urls,     \* b.getMeetingsURL, b.getRecordingsURL, b.healthCheckURL
    client,   \* b.client
    polled,   \* history: an earlier Gather call of this instance has emitted
    pc,       \* position of the running Gather cycle
    mr,       \* *MeetingsResponse fetched in this cycle
    rr,       \* *RecordingsResponse fetched in this cycle
    hc,       \* *HealthCheck fetched in this cycle
    mm,       \* metric Gather: result of processMeetings
    rm,       \* metric Gather: result of processRecordings
    acc,      \* measurements handed to the telegraf.Accumulator in this cycle
    ret       \* what the last Gather call returned

vars == <<input, output, impl, keys, secretKey, urls, client, polled, pc, mr, rr, hc, mm, rm, acc, ret>>

----------------------------------------------------------------------------
(* Bounds of the model *)

\* at most this many meetings plus recordings in the responses of one cycle
MaxRecords == 2

----------------------------------------------------------------------------
(* Input domains *)

MetadataNames == {"tenant", "room"}

MetadataValues == {"acme", "beta"}

\* tokens delivered by xml.Decoder.Token(); SyntaxError stands for a call that
\* returns err != nil before the end of the fragment
CharData(s) == [type |-> "CharData", text |-> s, name |-> ""]

StartElement(n) == [type |-> "StartElement", text |-> "", name |-> n]

EndElement(n) == [type |-> "EndElement", text |-> "", name |-> n]

SyntaxError == [type |-> "SyntaxError", text |-> "", name |-> ""]

Element(n, s) == <<StartElement(n), CharData(s), EndElement(n)>>

\* Metadata.Inner of a record, as the token stream the decoder yields
Fragments ==
    { << >>,                                              \* no metadata
      Element("tenant", "acme"),
      Element("tenant", "beta"),
      Element("room", "acme"),
      Element("tenant", "acme") \o Element("room", "beta"),
      <<StartElement("tenant"), EndElement("tenant")>>,   \* <tenant></tenant>
      Element("tenant", "acme") \o <<SyntaxError>> }      \* malformed tail

\* a Go map[string]string with no entry
EmptyMap == [k \in {} |-> ""]

\* participantCount, listenerCount, voiceParticipantCount, videoCount, recording
MeetingShapes == { <<5, 3, 3, 1, FALSE>>, <<10, 9, 1, 0, TRUE>> }

MeetingSet ==
    { [ParticipantCount |-> s[1], ListenerCount |-> s[2],
       VoiceParticipantCount |-> s[3], VideoCount |-> s[4],
       Recording |-> s[5], Metadata |-> f, ParsedMetadata |-> EmptyMap] :
        s \in MeetingShapes, f \in Fragments }

RecordingSet ==
    { [Published |-> p, Metadata |-> f, ParsedMetadata |-> EmptyMap] :
        p \in BOOLEAN, f \in Fragments }

SeqsUpTo(S, n) == UNION { [1..k -> S] : k \in 0..n }

MeetingsResponses ==
    { [MessageKey |-> k, Values |-> v] :
        k \in {"", "noMeetings"}, v \in SeqsUpTo(MeetingSet, MaxRecords) }

RecordingsResponses(n) ==
    { [MessageKey |-> k, Values |-> v] :
        k \in {"", "noRecordings"}, v \in SeqsUpTo(RecordingSet, n) }

ReturnCodes == {"SUCCESS", "FAILED", ""}

HealthChecks == { [ReturnCode |-> c] : c \in ReturnCodes }

KeyLists == { << >>, <<"tenant">>, <<"tenant", "room">>, <<"tenant", "tenant">> }

Impls == {"record", "metric"}

\* what one HTTP exchange can do
FetchOutcomes == {"ok", "clientError", "badStatus", "readError", "decodeError"}

\* toml secret_key: left empty, or set
SecretKeys == {"", "OxShRR1sT8FrJZq"}

\* what building the TLS configuration and the proxy function can do in Init
ClientConfigOutcomes == {"ok", "tlsError", "proxyError"}

NoResponse == [MessageKey |-> "", Values |-> << >>]

\* no function is called on its own while the plugin runs
NotCalled == [fn |-> "none"]

NoHealthCheck == [ReturnCode |-> "none"]

----------------------------------------------------------------------------
(* xmlToMap *)

\* mutant: the text buffer is emptied once an element is bound
RECURSIVE xmlToMapLoopCleared(_, _, _, _)
xmlToMapLoopCleared(tokens, i, m, values) ==
    IF i > Len(tokens) \/ tokens[i].type = "SyntaxError"
    THEN [panic |-> FALSE, m |-> m]
    ELSE IF tokens[i].type = "CharData"
    THEN xmlToMapLoopCleared(tokens, i + 1, m, Append(values, tokens[i].text))
    ELSE IF tokens[i].type = "EndElement"
    THEN IF Len(values) = 0
         THEN [panic |-> TRUE, m |-> m]
         ELSE xmlToMapLoopCleared(tokens, i + 1,
                  [k \in DOMAIN m \cup {tokens[i].name} |->
                      IF k = tokens[i].name THEN values[Len(values)] ELSE m[k]],
                  << >>)
    ELSE xmlToMapLoopCleared(tokens, i + 1, m, values)

\* the loop of xmlToMap from token i on; m is the map, values the text buffer.
\* An EndElement with an empty buffer indexes values[-1]: a runtime panic.
RECURSIVE xmlToMapLoop(_, _, _, _)
xmlToMapLoop(tokens, i, m, values) ==
    IF i > Len(tokens) \/ tokens[i].type = "SyntaxError"
    THEN [panic |-> FALSE, m |-> m]
    ELSE IF tokens[i].type = "CharData"
    THEN xmlToMapLoop(tokens, i + 1, m, Append(values, tokens[i].text))
    ELSE IF tokens[i].type = "EndElement"
    THEN IF Len(values) = 0
         THEN [panic |-> TRUE, m |-> m]
         ELSE xmlToMapLoop(tokens, i + 1,
                  [k \in DOMAIN m \cup {tokens[i].name} |->
                      IF k = tokens[i].name THEN values[Len(values)] ELSE m[k]],
                  values)
    ELSE xmlToMapLoop(tokens, i + 1, m, values)

xmlToMap(r) == xmlToMapLoop(r, 1, EmptyMap, << >>)

\* MetadataStruct.ContainsMetadata on a parsed map
ContainsMetadata(parsed, md) == md \in DOMAIN parsed

\* mutant: the bucket is keyed by the metadata name
GetMetadataName(parsed, md) == md

\* MetadataStruct.GetMetadata on a parsed map
GetMetadata(parsed, md) == parsed[md]

----------------------------------------------------------------------------
(* Record (part_001) *)

\* mutant: a new Record starts online
NewRecordOnline ==
    [Meetings |-> 0, Participants |-> 0, ListenerParticipants |-> 0,
     VoiceParticipants |-> 0, VideoParticipants |-> 0, ActiveRecordings |-> 0,
     Recordings |-> 0, PublishedRecordings |-> 0, Online |-> 1]

\* mutant: a Record created after an earlier cycle has emitted starts with
\* participants left over from it
NewRecordCarried ==
    [Meetings |-> 0, Participants |-> IF polled THEN 5 ELSE 0,
     ListenerParticipants |-> 0,
     VoiceParticipants |-> 0, VideoParticipants |-> 0, ActiveRecordings |-> 0,
     Recordings |-> 0, PublishedRecordings |-> 0, Online |-> 0]

NewRecord ==
    [Meetings |-> 0, Participants |-> 0, ListenerParticipants |-> 0,
     VoiceParticipants |-> 0, VideoParticipants |-> 0, ActiveRecordings |-> 0,
     Recordings |-> 0, PublishedRecordings |-> 0, Online |-> 0]

\* mutant: every meeting counts as an active recording
RECURSIVE MeetingLoopAllRecording(_, _, _)
MeetingLoopAllRecording(rec, ms, i) ==
    IF i > Len(ms) THEN rec
    ELSE MeetingLoopAllRecording(
        [rec EXCEPT !.Participants = @ + ms[i].ParticipantCount,
                    !.ListenerParticipants = @ + ms[i].ListenerCount,
                    !.VoiceParticipants = @ + ms[i].VoiceParticipantCount,
                    !.VideoParticipants = @ + ms[i].VideoCount,
                    !.ActiveRecordings = @ + 1],
        ms, i + 1)

RECURSIVE MeetingLoop(_, _, _)
MeetingLoop(rec, ms, i) ==
    IF i > Len(ms) THEN rec
    ELSE MeetingLoop(
        [rec EXCEPT !.Participants = @ + ms[i].ParticipantCount,
                    !.ListenerParticipants = @ + ms[i].ListenerCount,
                    !.VoiceParticipants = @ + ms[i].VoiceParticipantCount,
                    !.VideoParticipants = @ + ms[i].VideoCount,
                    !.ActiveRecordings = IF ms[i].Recording THEN @ + 1 ELSE @],
        ms, i + 1)

\* mutant: the participant counter, like the meeting counter, is computed from
\* the first meeting alone
ComputeMeetingMetricsFirst(rec, ms) ==
    IF Len(ms) = 0 THEN rec
    ELSE MeetingLoop([rec EXCEPT !.Meetings = Len(ms)], <<ms[1]>>, 1)

ComputeMeetingMetrics(rec, ms) ==
    IF Len(ms) = 0 THEN rec
    ELSE MeetingLoop([rec EXCEPT !.Meetings = Len(ms)], ms, 1)

RECURSIVE RecordingLoop(_, _, _)
RecordingLoop(rec, rs, i) ==
    IF i > Len(rs) THEN rec
    ELSE RecordingLoop(
        [rec EXCEPT !.PublishedRecordings = IF rs[i].Published THEN @ + 1 ELSE @],
        rs, i + 1)

ComputeRecordingMetrics(rec, rs) ==
    IF Len(rs) = 0 THEN rec
    ELSE RecordingLoop([rec EXCEPT !.Recordings = Len(rs)], rs, 1)

\* mutant: every return code but "FAILED" counts as online
ComputeOnlineMetricNotFailed(rec, h) ==
    IF h.ReturnCode # "FAILED" THEN [rec EXCEPT !.Online = 1] ELSE rec

ComputeOnlineMetric(rec, h) ==
    IF h.ReturnCode = "SUCCESS" THEN [rec EXCEPT !.Online = 1] ELSE rec

NewRecordFrom(m, r, h) ==
    ComputeOnlineMetric(
        ComputeRecordingMetrics(ComputeMeetingMetrics(NewRecord, m), r), h)

\* mutant: the voice and video counters are written under each other's name
ToMapSwapped(rec) ==
    [meetings |-> rec.Meetings,
     participants |-> rec.Participants,
     listener_participants |-> rec.ListenerParticipants,
     voice_participants |-> rec.VideoParticipants,
     video_participants |-> rec.VoiceParticipants,
     active_recordings |-> rec.ActiveRecordings,
     recordings |-> rec.Recordings,
     published_recordings |-> rec.PublishedRecordings,
     online |-> rec.Online]

ToMap(rec) ==
    [meetings |-> rec.Meetings,
     participants |-> rec.Participants,
     listener_participants |-> rec.ListenerParticipants,
     voice_participants |-> rec.VoiceParticipants,
     video_participants |-> rec.VideoParticipants,
     active_recordings |-> rec.ActiveRecordings,
     recordings |-> rec.Recordings,
     published_recordings |-> rec.PublishedRecordings,
     online |-> rec.Online]

----------------------------------------------------------------------------
(* GetMetadataRecords (part_003) *)

\* every order in which a range over a Go map with key set S can visit it
Orders(S) ==
    { s \in [1..Cardinality(S) -> S] : \A i, j \in DOMAIN s : s[i] = s[j] => i = j }

\* mutant: the storage of a value is created anew at every match
createStorageAlways(store, key) ==
    [k \in DOMAIN store \cup {key} |->
        IF k = key THEN [meetings |-> << >>, recordings |-> << >>] ELSE store[k]]

createStorageIfNotExists(store, key) ==
    IF key \in DOMAIN store THEN store
    ELSE store @@ (key :> [meetings |-> << >>, recordings |-> << >>])

\* MetadataStruct.ParseMetadata on a meeting or a recording
ParseMetadata(x) ==
    LET p == xmlToMap(x.Metadata)
    IN  [panic |-> p.panic, x |-> [x EXCEPT !.ParsedMetadata = p.m]]

\* mutant: a meeting without the metadata name is stored under the empty value
RECURSIVE StoreMeetingsUnmatched(_, _, _, _)
StoreMeetingsUnmatched(st, md, ms, i) ==
    IF st.panic \/ i > Len(ms) THEN st
    ELSE LET p == ParseMetadata(ms[i])
         IN  IF p.panic THEN [st EXCEPT !.panic = TRUE]
             ELSE LET val == IF ContainsMetadata(p.x.ParsedMetadata, md)
                             THEN GetMetadata(p.x.ParsedMetadata, md) ELSE ""
                      s == createStorageIfNotExists(st.store, val)
                  IN  StoreMeetingsUnmatched(
                          [st EXCEPT !.store =
                              [s EXCEPT ![val].meetings = Append(@, p.x)]],
                          md, ms, i + 1)

\* for _, m := range mr.Meetings.Values, for the metadata name md
RECURSIVE StoreMeetings(_, _, _, _)
StoreMeetings(st, md, ms, i) ==
    IF st.panic \/ i > Len(ms) THEN st
    ELSE LET p == ParseMetadata(ms[i])
         IN  IF p.panic THEN [st EXCEPT !.panic = TRUE]
             ELSE IF ~ContainsMetadata(p.x.ParsedMetadata, md)
             THEN StoreMeetings(st, md, ms, i + 1)
             ELSE LET val == GetMetadata(p.x.ParsedMetadata, md)
                      s == createStorageIfNotExists(st.store, val)
                  IN  StoreMeetings(
                          [st EXCEPT !.store =
                              [s EXCEPT ![val].meetings = Append(@, p.x)]],
                          md, ms, i + 1)

\* for _, r := range rr.Recordings.Values, for the metadata name md
RECURSIVE StoreRecordings(_, _, _, _)
StoreRecordings(st, md, rs, i) ==
    IF st.panic \/ i > Len(rs) THEN st
    ELSE LET p == ParseMetadata(rs[i])
         IN  IF p.panic THEN [st EXCEPT !.panic = TRUE]
             ELSE IF ~ContainsMetadata(p.x.ParsedMetadata, md)
             THEN StoreRecordings(st, md, rs, i + 1)
             ELSE LET val == GetMetadata(p.x.ParsedMetadata, md)
                      s == createStorageIfNotExists(st.store, val)
                  IN  StoreRecordings(
                          [st EXCEPT !.store =
                              [s EXCEPT ![val].recordings = Append(@, p.x)]],
                          md, rs, i + 1)

\* for _, md := range b.GatherByMetadata
RECURSIVE StoreLoop(_, _, _, _, _)
StoreLoop(st, mds, ms, rs, j) ==
    IF st.panic \/ j > Len(mds) THEN st
    ELSE StoreLoop(
             StoreRecordings(StoreMeetings(st, mds[j], ms, 1), mds[j], rs, 1),
             mds, ms, rs, j + 1)

\* mutant: the per-value records are built without the health check
GetMetadataRecordsNoHealth(mds, mresp, rresp, hr) ==
    LET st == StoreLoop([panic |-> FALSE, store |-> EmptyMap],
                        mds, mresp.Values, rresp.Values, 1)
    IN  [panic |-> st.panic,
         res |-> IF st.panic THEN EmptyMap
                 ELSE [key \in DOMAIN st.store |->
                          NewRecordFrom(st.store[key].meetings,
                                        st.store[key].recordings, NoHealthCheck)]]

GetMetadataRecords(mds, mresp, rresp, hr) ==
    LET st == StoreLoop([panic |-> FALSE, store |-> EmptyMap],
                        mds, mresp.Values, rresp.Values, 1)
    IN  [panic |-> st.panic,
         res |-> IF st.panic THEN EmptyMap
                 ELSE [key \in DOMAIN st.store |->
                          NewRecordFrom(st.store[key].meetings,
                                        st.store[key].recordings, hr)]]

shouldGatherByMetadata(mds) == Len(mds) > 0

----------------------------------------------------------------------------
(* HTTP helper shared by both implementations *)

\* api: client.Do failing leaves resp nil and the error message reads
\* resp.StatusCode, a nil dereference
api(outcome) ==
    IF outcome = "clientError" THEN "panic"
    ELSE IF outcome \in {"badStatus", "readError"} THEN "error"
    ELSE "body"

\* getMeetings / getRecordings / getHealCheck / getAPIStatus: api, then xml.Unmarshal
fetch(outcome) ==
    IF api(outcome) # "body" THEN api(outcome)
    ELSE IF outcome = "decodeError" THEN "error"
    ELSE "ok"

\* mutant: every measurement is tagged
MeasurementTagged(name, fields) ==
    [name |-> name, fields |-> fields, tags |-> [measurement |-> name]]

\* acc.AddFields(name, toStringMapInterface(fields), make(map[string]string))
Measurement(name, fields) == [name |-> name, fields |-> fields, tags |-> EmptyMap]


----------------------------------------------------------------------------
(* MeetingsMetric / RecordingsMetric (model.go) and the metric Gather's helpers *)

NewMeetingMetric ==
    [Meetings |-> 0, Participants |-> 0, ListenerParticipants |-> 0,
     VoiceParticipants |-> 0, VideoParticipants |-> 0, ActiveRecordings |-> 0]

NewRecordingMetric == [Recordings |-> 0, PublishedRecordings |-> 0]

NewAPIStatusMetric == [Online |-> 0]

performMeetingCalculation(metric, meeting) ==
    [metric EXCEPT !.Meetings = @ + 1,
                   !.Participants = @ + meeting.ParticipantCount,
                   !.ListenerParticipants = @ + meeting.ListenerCount,
                   !.VoiceParticipants = @ + meeting.VoiceParticipantCount,
                   !.VideoParticipants = @ + meeting.VideoCount,
                   !.ActiveRecordings = IF meeting.Recording THEN @ + 1 ELSE @]

\* mutant: a recording is counted only when it is published
performRecordingCalculationPublished(metric, recording) ==
    IF recording.Published
    THEN [metric EXCEPT !.Recordings = @ + 1, !.PublishedRecordings = @ + 1]
    ELSE metric

performRecordingCalculation(metric, recording) ==
    [metric EXCEPT !.Recordings = @ + 1,
                   !.PublishedRecordings = IF recording.Published THEN @ + 1 ELSE @]

\* metric := (*values)[key] copies the struct out of the map; the calculation
\* updates the copy, which is dropped when the iteration ends
RECURSIVE gatherMeetingsByMetadataLoop(_, _, _, _)
gatherMeetingsByMetadataLoop(mds, values, meeting, j) ==
    IF j > Len(mds) THEN values
    ELSE IF mds[j] \in DOMAIN meeting.ParsedMetadata
    THEN LET key == meeting.ParsedMetadata[mds[j]]
             stored == IF key \in DOMAIN values THEN values
                       ELSE values @@ (key :> NewMeetingMetric)
             metric == performMeetingCalculation(stored[key], meeting)
         IN  gatherMeetingsByMetadataLoop(mds, stored, meeting, j + 1)
    ELSE gatherMeetingsByMetadataLoop(mds, values, meeting, j + 1)

gatherMeetingsByMetadata(mds, values, meeting) ==
    gatherMeetingsByMetadataLoop(mds, values, meeting, 1)

RECURSIVE gatherRecordingsByMetadataLoop(_, _, _, _)
gatherRecordingsByMetadataLoop(mds, values, recording, j) ==
    IF j > Len(mds) THEN values
    ELSE IF mds[j] \in DOMAIN recording.ParsedMetadata
    THEN LET key == recording.ParsedMetadata[mds[j]]
             stored == IF key \in DOMAIN values THEN values
                       ELSE values @@ (key :> NewRecordingMetric)
             metric == performRecordingCalculation(stored[key], recording)
         IN  gatherRecordingsByMetadataLoop(mds, stored, recording, j + 1)
    ELSE gatherRecordingsByMetadataLoop(mds, values, recording, j + 1)

gatherRecordingsByMetadata(mds, values, recording) ==
    gatherRecordingsByMetadataLoop(mds, values, recording, 1)

\* for _, meeting := range m.Meetings.Values
RECURSIVE processMeetingsLoop(_, _, _, _)
processMeetingsLoop(mds, st, ms, i) ==
    IF st.panic \/ i > Len(ms) THEN st
    ELSE LET p == ParseMetadata(ms[i])
         IN  IF p.panic THEN [st EXCEPT !.panic = TRUE]
             ELSE processMeetingsLoop(mds,
                      [panic |-> FALSE,
                       metric |-> performMeetingCalculation(st.metric, p.x),
                       metadata |->
                           IF shouldGatherByMetadata(mds)
                           THEN gatherMeetingsByMetadata(mds, st.metadata, p.x)
                           ELSE st.metadata],
                      ms, i + 1)

\* mutant: the meetings are counted only when no metadata name is configured
processMeetingsUnkeyed(mds, m) ==
    LET zero == [panic |-> FALSE, metric |-> NewMeetingMetric, metadata |-> EmptyMap]
    IN  IF m.MessageKey = "noMeetings" \/ Len(mds) > 0 THEN zero
        ELSE processMeetingsLoop(mds, zero, m.Values, 1)

\* mutant: the meeting list is read whatever the message key
processMeetingsAlways(mds, m) ==
    processMeetingsLoop(mds,
        [panic |-> FALSE, metric |-> NewMeetingMetric, metadata |-> EmptyMap],
        m.Values, 1)

processMeetings(mds, m) ==
    LET zero == [panic |-> FALSE, metric |-> NewMeetingMetric, metadata |-> EmptyMap]
    IN  IF m.MessageKey = "noMeetings" THEN zero
        ELSE processMeetingsLoop(mds, zero, m.Values, 1)

\* for _, recording := range r.Recordings.Values
RECURSIVE processRecordingsLoop(_, _, _, _)
processRecordingsLoop(mds, st, rs, i) ==
    IF st.panic \/ i > Len(rs) THEN st
    ELSE LET p == ParseMetadata(rs[i])
         IN  IF p.panic THEN [st EXCEPT !.panic = TRUE]
             ELSE processRecordingsLoop(mds,
                      [panic |-> FALSE,
                       metric |-> performRecordingCalculation(st.metric, p.x),
                       metadata |->
                           IF shouldGatherByMetadata(mds)
                           THEN gatherRecordingsByMetadata(mds, st.metadata, p.x)
                           ELSE st.metadata],
                      rs, i + 1)

processRecordings(mds, r) ==
    LET zero == [panic |-> FALSE, metric |-> NewRecordingMetric, metadata |-> EmptyMap]
    IN  IF r.MessageKey = "noRecordings" THEN zero
        ELSE processRecordingsLoop(mds, zero, r.Values, 1)

processAPIStatus(h) ==
    IF h.ReturnCode = "SUCCESS" THEN [NewAPIStatusMetric EXCEPT !.Online = 1]
    ELSE NewAPIStatusMetric

\* mutant: the values of the recordings map are appended without the test
getMetadataValuesBoth(m, r) ==
    { a \o b : a \in Orders(DOMAIN m), b \in Orders(DOMAIN r) }

\* the orders getMetadataValues can return: the keys of m in any order, then
\* the keys of r that m lacks in any order
getMetadataValues(m, r) ==
    { a \o b : a \in Orders(DOMAIN m), b \in Orders(DOMAIN r \ DOMAIN m) }

\* the process closure of Gather
process(measurement, m, r, apiStatusMetric) ==
    Measurement(measurement,
        [meetings |-> m.Meetings,
         participants |-> m.Participants,
         listener_participants |-> m.ListenerParticipants,
         voice_participants |-> m.VoiceParticipants,
         video_participants |-> m.VideoParticipants,
         active_recordings |-> m.ActiveRecordings,
         recordings |-> r.Recordings,
         published_recordings |-> r.PublishedRecordings,
         online |-> apiStatusMetric.Online])

\* reading map[string]MeetingsMetric at a key it lacks yields the zero struct
MeetingsMetricAt(m, v) == IF v \in DOMAIN m THEN m[v] ELSE NewMeetingMetric

RecordingsMetricAt(r, v) == IF v \in DOMAIN r THEN r[v] ELSE NewRecordingMetric

\* mutant: the per-value measurement is named after the metadata name
MetadataMeasurementNameTenant(v) == "tenant"

\* "bigbluebutton:%s"
MetadataMeasurementName(v) == "bigbluebutton:" \o v

----------------------------------------------------------------------------
(* State machine *)

NoMetric == [metric |-> NewMeetingMetric, metadata |-> EmptyMap]

NoRecMetric == [metric |-> NewRecordingMetric, metadata |-> EmptyMap]

\* the struct as telegraf builds it from the configuration, before Init
Fresh ==
    /\ input = NotCalled
    /\ output = NotCalled
    /\ keys \in KeyLists
    /\ secretKey \in SecretKeys
    /\ urls = "unset"
    /\ client = "nil"
    /\ polled = FALSE
    /\ pc = "new"
    /\ mr = NoResponse
    /\ rr = NoResponse
    /\ hc = NoHealthCheck
    /\ mm = NoMetric
    /\ rm = NoRecMetric
    /\ acc = << >>
    /\ ret = "none"

Init ==
    /\ impl \in Impls
    /\ Fresh

\* mutant: Init computes the URLs and builds the client whatever the secret key
InitPluginUnchecked ==
    /\ pc = "new"
    /\ urls' = "set"
    /\ \E o \in ClientConfigOutcomes :
         IF o = "ok"
         THEN client' = "created" /\ pc' = "idle"
         ELSE client' = client /\ pc' = "initFailed"
    /\ UNCHANGED <<input, output, impl, keys, secretKey, polled, mr, rr, hc, mm, rm, acc, ret>>

\* func (b *BigBlueButton) Init() error; telegraf runs Gather only on a plugin
\* whose Init returned nil
InitPlugin ==
    /\ pc = "new"
    /\ IF secretKey = ""
       THEN /\ pc' = "initFailed"
            /\ UNCHANGED <<urls, client>>
       ELSE /\ urls' = "set"
            /\ \E o \in ClientConfigOutcomes :
                 IF o = "ok"
                 THEN client' = "created" /\ pc' = "idle"
                 ELSE client' = client /\ pc' = "initFailed"
    /\ UNCHANGED <<input, output, impl, keys, secretKey, polled, mr, rr, hc, mm, rm, acc, ret>>

\* a panic or an error return ends the cycle where it stands
Abort(result) ==
    /\ pc' = IF result = "panic" THEN "crashed" ELSE "returned"
    /\ ret' = result

\* Gather has returned: its locals are gone, the accumulator's measurements are
\* flushed, and the plugin waits for the next interval
Interval ==
    /\ pc = "returned"
    /\ pc' = "idle"
    /\ mr' = NoResponse /\ rr' = NoResponse /\ hc' = NoHealthCheck
    /\ mm' = NoMetric /\ rm' = NoRecMetric
    /\ acc' = << >> /\ ret' = "none"
    /\ UNCHANGED <<input, output, impl, keys, secretKey, urls, client, polled>>

\* the same step, observed: polled records that a cycle of this instance has
\* emitted measurements
IntervalAfterPoll ==
    /\ pc = "returned"
    /\ pc' = "idle"
    /\ mr' = NoResponse /\ rr' = NoResponse /\ hc' = NoHealthCheck
    /\ mm' = NoMetric /\ rm' = NoRecMetric
    /\ acc' = << >> /\ ret' = "none"
    /\ polled' = (polled \/ acc # << >>)
    /\ UNCHANGED <<input, output, impl, keys, secretKey, urls, client>>

(* Gather of part_003 *)

\* m, err := b.getMeetings()
\* (this Gather never reads MessageKey: the responses are drawn with it empty)
RecGetMeetings ==
    /\ impl = "record" /\ pc = "idle"
    /\ rr' = NoResponse /\ hc' = NoHealthCheck /\ acc' = << >>
    /\ \E o \in FetchOutcomes :
        IF fetch(o) = "ok"
        THEN /\ mr' \in { m \in MeetingsResponses : m.MessageKey = "" }
             /\ pc' = "meetings" /\ ret' = "running"
        ELSE /\ mr' = NoResponse
             /\ Abort(fetch(o))
    /\ UNCHANGED <<input, output, impl, keys, secretKey, urls, client, polled, mm, rm>>

\* r, err := b.getRecordings()
RecGetRecordings ==
    /\ impl = "record" /\ pc = "meetings"
    /\ \E o \in FetchOutcomes :
        IF fetch(o) = "ok"
        THEN /\ rr' \in { r \in RecordingsResponses(MaxRecords - Len(mr.Values)) :
                            r.MessageKey = "" }
             /\ pc' = "recordings" /\ ret' = ret
        ELSE /\ rr' = NoResponse
             /\ Abort(fetch(o))
    /\ UNCHANGED <<input, output, impl, keys, secretKey, urls, client, polled, mr, hc, mm, rm, acc>>

\* mutant: the global measurement is emitted and the cycle then returns an error
RecAddFieldsThenFail(h) ==
    /\ acc' = Append(acc, Measurement("bigbluebutton",
                              ToMap(NewRecordFrom(mr.Values, rr.Values, h))))
    /\ Abort("error")

\* mutant: the per-value measurements are emitted before the global one
RecAddFieldsGlobalLast(h) ==
    LET global == Measurement("bigbluebutton",
                      ToMap(NewRecordFrom(mr.Values, rr.Values, h)))
        recs == IF shouldGatherByMetadata(keys)
                     /\ ~GetMetadataRecords(keys, mr, rr, h).panic
                THEN GetMetadataRecords(keys, mr, rr, h).res ELSE EmptyMap
    IN  /\ \E order \in Orders(DOMAIN recs) :
            acc' = [i \in DOMAIN order |->
                       Measurement(MetadataMeasurementName(order[i]),
                                   ToMap(recs[order[i]]))] \o <<global>>
        /\ Abort("nil")

\* rec := NewRecordFrom(...); acc.AddFields("bigbluebutton", ...);
\* if b.shouldGatherByMetadata() { ... acc.AddFields(...) ... }; return nil
RecAddFields(h) ==
    LET global == Measurement("bigbluebutton",
                      ToMap(NewRecordFrom(mr.Values, rr.Values, h)))
    IN  IF shouldGatherByMetadata(keys)
        THEN LET recs == GetMetadataRecords(keys, mr, rr, h)
             IN  IF recs.panic
                 THEN /\ acc' = Append(acc, global)
                      /\ Abort("panic")
                 ELSE /\ \E order \in Orders(DOMAIN recs.res) :
                          acc' = Append(acc, global) \o
                              [i \in DOMAIN order |->
                                  Measurement(MetadataMeasurementName(order[i]),
                                              ToMap(recs.res[order[i]]))]
                      /\ Abort("nil")
        ELSE /\ acc' = Append(acc, global)
             /\ Abort("nil")

\* h, err := b.getHealCheck(), and the rest of Gather, which takes no more input
RecGetHealCheck ==
    /\ impl = "record" /\ pc = "recordings"
    /\ \E o \in FetchOutcomes :
        IF fetch(o) = "ok"
        THEN \E h \in HealthChecks :
                /\ hc' = h
                /\ RecAddFields(h)
        ELSE /\ hc' = NoHealthCheck
             /\ acc' = acc
             /\ Abort(fetch(o))
    /\ UNCHANGED <<input, output, impl, keys, secretKey, urls, client, polled, mr, rr, mm, rm>>

(* Gather of bigbluebutton.go *)

\* mr, err = b.getMeetings(); b.processMeetings(mr)
MetGetMeetings ==
    /\ impl = "metric" /\ pc = "idle"
    /\ rr' = NoResponse /\ hc' = NoHealthCheck /\ acc' = << >> /\ rm' = NoRecMetric
    /\ \E o \in FetchOutcomes :
        IF fetch(o) = "ok"
        THEN /\ mr' \in MeetingsResponses
             /\ LET res == processMeetings(keys, mr')
                IN  IF res.panic
                    THEN /\ mm' = NoMetric
                         /\ Abort("panic")
                    ELSE /\ mm' = [metric |-> res.metric, metadata |-> res.metadata]
                         /\ pc' = "meetings" /\ ret' = "running"
        ELSE /\ mr' = NoResponse /\ mm' = NoMetric
             /\ Abort(fetch(o))
    /\ UNCHANGED <<input, output, impl, keys, secretKey, urls, client, polled>>

\* rm, err = b.getRecordings(); b.processRecordings(rm)
MetGetRecordings ==
    /\ impl = "metric" /\ pc = "meetings"
    /\ \E o \in FetchOutcomes :
        IF fetch(o) = "ok"
        THEN /\ rr' \in RecordingsResponses(MaxRecords - Len(mr.Values))
             /\ LET res == processRecordings(keys, rr')
                IN  IF res.panic
                    THEN /\ rm' = NoRecMetric
                         /\ Abort("panic")
                    ELSE /\ rm' = [metric |-> res.metric, metadata |-> res.metadata]
                         /\ pc' = "recordings" /\ ret' = ret
        ELSE /\ rr' = NoResponse /\ rm' = NoRecMetric
             /\ Abort(fetch(o))
    /\ UNCHANGED <<input, output, impl, keys, secretKey, urls, client, polled, mr, hc, mm, acc>>

\* process("bigbluebutton", ...); if !b.shouldGatherByMetadata() { return nil };
\* for _, v := range getMetadataValues(...) { process(...) }; return nil
MetAddFields(h) ==
    LET apiStatusMetric == processAPIStatus(h)
        global == process("bigbluebutton", mm.metric, rm.metric, apiStatusMetric)
    IN  /\ IF ~shouldGatherByMetadata(keys)
           THEN acc' = Append(acc, global)
           ELSE \E order \in getMetadataValues(mm.metadata, rm.metadata) :
                    acc' = Append(acc, global) \o
                        [i \in DOMAIN order |->
                            process(MetadataMeasurementName(order[i]),
                                    MeetingsMetricAt(mm.metadata, order[i]),
                                    RecordingsMetricAt(rm.metadata, order[i]),
                                    apiStatusMetric)]
        /\ Abort("nil")

\* hc, err = b.getAPIStatus(), and the rest of Gather, which takes no more input
MetGetAPIStatus ==
    /\ impl = "metric" /\ pc = "recordings"
    /\ \E o \in FetchOutcomes :
        IF fetch(o) = "ok"
        THEN \E h \in HealthChecks :
                /\ hc' = h
                /\ MetAddFields(h)
        ELSE /\ hc' = NoHealthCheck
             /\ acc' = acc
             /\ Abort(fetch(o))
    /\ UNCHANGED <<input, output, impl, keys, secretKey, urls, client, polled, mr, rr, mm, rm>>

(* Gatherv2 of bigbluebutton.go, Gather of part_004: one measurement per stage *)

emptyMeetingsMap ==
    [meetings |-> 0, active_recordings |-> 0, listener_participants |-> 0,
     participants |-> 0, video_participants |-> 0, voice_participants |-> 0]

emptyRecordingsMap == [recordings |-> 0, published_recordings |-> 0]

\* for i := 0; i < len(response.Meetings.Values); i++ of gatherMeetings
RECURSIVE gatherMeetingsLoop(_, _, _)
gatherMeetingsLoop(st, ms, i) ==
    IF st.panic \/ i > Len(ms) THEN st
    ELSE IF xmlToMap(ms[i].Metadata).panic THEN [st EXCEPT !.panic = TRUE]
    ELSE gatherMeetingsLoop(
             [st EXCEPT !.record =
                 [@ EXCEPT !.meetings = @ + 1,
                           !.participants = @ + ms[i].ParticipantCount,
                           !.listener_participants = @ + ms[i].ListenerCount,
                           !.voice_participants = @ + ms[i].VoiceParticipantCount,
                           !.video_participants = @ + ms[i].VideoCount,
                           !.active_recordings =
                               IF ms[i].Recording THEN @ + 1 ELSE @]],
             ms, i + 1)

\* for i := 0; i < len(response.Recordings.Values); i++ of gatherRecordings
RECURSIVE gatherRecordingsLoop(_, _, _)
gatherRecordingsLoop(st, rs, i) ==
    IF st.panic \/ i > Len(rs) THEN st
    ELSE IF xmlToMap(rs[i].Metadata).panic THEN [st EXCEPT !.panic = TRUE]
    ELSE gatherRecordingsLoop(
             [st EXCEPT !.record =
                 [@ EXCEPT !.recordings = @ + 1,
                           !.published_recordings =
                               IF rs[i].Published THEN @ + 1 ELSE @]],
             rs, i + 1)

\* gatherMeetings: mRecords stays empty, addMetadataRecordingsToAcc adds nothing
gatherMeetings ==
    /\ impl = "staged" /\ pc = "idle"
    /\ rr' = NoResponse /\ hc' = NoHealthCheck
    /\ \E o \in FetchOutcomes :
        IF fetch(o) = "ok"
        THEN /\ mr' \in MeetingsResponses
             /\ LET st == IF mr'.MessageKey = "noMeetings"
                          THEN [panic |-> FALSE, record |-> emptyMeetingsMap]
                          ELSE gatherMeetingsLoop(
                                   [panic |-> FALSE, record |-> emptyMeetingsMap],
                                   mr'.Values, 1)
                IN  IF st.panic
                    THEN /\ acc' = acc
                         /\ Abort("panic")
                    ELSE /\ acc' = Append(acc,
                                      Measurement("bigbluebutton_meetings", st.record))
                         /\ pc' = "meetings" /\ ret' = "running"
        ELSE /\ mr' = NoResponse /\ acc' = acc
             /\ Abort(fetch(o))
    /\ UNCHANGED <<input, output, impl, keys, secretKey, urls, client, polled, mm, rm>>

gatherRecordings ==
    /\ impl = "staged" /\ pc = "meetings"
    /\ \E o \in FetchOutcomes :
        IF fetch(o) = "ok"
        THEN /\ rr' \in RecordingsResponses(MaxRecords - Len(mr.Values))
             /\ LET st == IF rr'.MessageKey = "noRecordings"
                          THEN [panic |-> FALSE, record |-> emptyRecordingsMap]
                          ELSE gatherRecordingsLoop(
                                   [panic |-> FALSE, record |-> emptyRecordingsMap],
                                   rr'.Values, 1)
                IN  IF st.panic
                    THEN /\ acc' = acc
                         /\ Abort("panic")
                    ELSE /\ acc' = Append(acc,
                                      Measurement("bigbluebutton_recordings", st.record))
                         /\ pc' = "recordings" /\ ret' = ret
        ELSE /\ rr' = NoResponse /\ acc' = acc
             /\ Abort(fetch(o))
    /\ UNCHANGED <<input, output, impl, keys, secretKey, urls, client, polled, mr, hc, mm, rm>>

\* mutant: a failed health fetch emits nothing
apiStatusOnErrorNothing == << >>

\* what gatherAPIStatus adds before it returns the error of api or of xml.Unmarshal
apiStatusOnError == <<Measurement("bigbluebutton_api", [online |-> 0])>>

gatherAPIStatus ==
    /\ impl = "staged" /\ pc = "recordings"
    /\ \E o \in FetchOutcomes :
        IF fetch(o) = "ok"
        THEN \E h \in HealthChecks :
                /\ hc' = h
                /\ acc' = Append(acc, Measurement("bigbluebutton_api",
                               [online |-> IF h.ReturnCode = "SUCCESS" THEN 1 ELSE 0]))
                /\ Abort("nil")
        ELSE /\ hc' = NoHealthCheck
             /\ acc' = IF fetch(o) = "panic" THEN acc ELSE acc \o apiStatusOnError
             /\ Abort(fetch(o))
    /\ UNCHANGED <<input, output, impl, keys, secretKey, urls, client, polled, mr, rr, mm, rm>>

Next ==
    \/ InitPlugin
    \/ RecGetMeetings
    \/ RecGetRecordings
    \/ RecGetHealCheck
    \/ MetGetMeetings
    \/ MetGetRecordings
    \/ MetGetAPIStatus
    \/ Interval

Spec == Init /\ [][Next]_vars

\* the plugin built from part_003 alone
InitRecord == Init /\ impl = "record"

NextRecord ==
    \/ InitPlugin
    \/ RecGetMeetings
    \/ RecGetRecordings
    \/ RecGetHealCheck
    \/ Interval

SpecRecord == InitRecord /\ [][NextRecord]_vars

\* the plugin whose Gather is the staged cycle
InitStaged == impl = "staged" /\ Fresh

\* Gatherv2: gatherMeetings, then gatherRecordings, then gatherAPIStatus
Gatherv2 ==
    \/ gatherMeetings
    \/ gatherRecordings
    \/ gatherAPIStatus

NextStaged ==
    \/ InitPlugin
    \/ Gatherv2
    \/ Interval

SpecStaged == InitStaged /\ [][NextStaged]_vars

\* both Gather implementations, with the history of the instance observed
NextCycles ==
    \/ InitPlugin
    \/ RecGetMeetings
    \/ RecGetRecordings
    \/ RecGetHealCheck
    \/ MetGetMeetings
    \/ MetGetRecordings
    \/ MetGetAPIStatus
    \/ IntervalAfterPoll

SpecCycles == Init /\ [][NextCycles]_vars


----------------------------------------------------------------------------
(* What a cycle is expected to report, stated over index sets *)

\* the parsed metadata of a meeting or a recording
Parsed(x) == xmlToMap(x.Metadata).m

MapsTo(x, k, v) == k \in DOMAIN Parsed(x) /\ Parsed(x)[k] = v

RECURSIVE SumOver(_, _)
SumOver(S, f) ==
    IF S = {} THEN 0
    ELSE LET e == CHOOSE e \in S : TRUE IN f[e] + SumOver(S \ {e}, f)

OnlineOf(h) == IF h.ReturnCode = "SUCCESS" THEN 1 ELSE 0

\* the eight counters of the meetings ms[i], i \in I, and the recordings rs[j], j \in J
Counters(ms, I, rs, J) ==
    [meetings |-> Cardinality(I),
     participants |-> SumOver(I, [i \in I |-> ms[i].ParticipantCount]),
     listener_participants |-> SumOver(I, [i \in I |-> ms[i].ListenerCount]),
     voice_participants |-> SumOver(I, [i \in I |-> ms[i].VoiceParticipantCount]),
     video_participants |-> SumOver(I, [i \in I |-> ms[i].VideoCount]),
     active_recordings |-> Cardinality({i \in I : ms[i].Recording}),
     recordings |-> Cardinality(J),
     published_recordings |-> Cardinality({j \in J : rs[j].Published})]

CounterNames ==
    {"meetings", "participants", "listener_participants", "voice_participants",
     "video_participants", "active_recordings", "recordings", "published_recordings"}

SameCounters(fields, c) == \A n \in CounterNames : fields[n] = c[n]

\* the cycle returned nil
Succeeded == pc = "returned" /\ ret = "nil"

\* the global measurement of the cycle, once emitted
GlobalEmitted == Len(acc) >= 1

\* the per-value measurements emitted so far
PerValue == { acc[i] : i \in 2..Len(acc) }

PerValueOf(v) == { x \in PerValue : x.name = MetadataMeasurementName(v) }

NoParsePanic ==
    /\ \A i \in DOMAIN mr.Values : ~xmlToMap(mr.Values[i].Metadata).panic
    /\ \A j \in DOMAIN rr.Values : ~xmlToMap(rr.Values[j].Metadata).panic

----------------------------------------------------------------------------
(* C1 *)

C1_Meetings(k, v) == { i \in DOMAIN mr.Values : MapsTo(mr.Values[i], k, v) }

C1_Recordings(k, v) == { j \in DOMAIN rr.Values : MapsTo(rr.Values[j], k, v) }

\* C1: with exactly one configured metadata name k, after a successful cycle of
\* the part_003 Gather, for each value v that some fetched record maps k to there
\* is exactly one per-value aggregate, whose meetings, participant counters,
\* active_recordings, recordings and published_recordings are the count, the
\* sums and the flag counts over the meetings and recordings mapping k to v; a
\* value no record maps k to has no aggregate.
C1_PerValueAggregate ==
    (impl = "record" /\ Succeeded /\ Len(keys) = 1) =>
      /\ \A x \in PerValue :
            \E v \in MetadataValues : x.name = MetadataMeasurementName(v)
      /\ \A v \in MetadataValues :
            LET I == C1_Meetings(keys[1], v)
                J == C1_Recordings(keys[1], v)
            IN  IF I = {} /\ J = {}
                THEN PerValueOf(v) = {}
                ELSE /\ Cardinality({ i \in 2..Len(acc) :
                            acc[i].name = MetadataMeasurementName(v) }) = 1
                     /\ \A x \in PerValueOf(v) :
                            SameCounters(x.fields,
                                Counters(mr.Values, I, rr.Values, J))

\* the example of the spec: one meeting {tenant: acme} 5/3/3/1 not recording and
\* one published recording {tenant: acme} give 1,5,3,3,1,0,1,1
C1_Witness ==
    /\ impl = "record" /\ Succeeded /\ keys = <<"tenant">>
    /\ Len(mr.Values) = 1 /\ Len(rr.Values) = 1
    /\ MapsTo(mr.Values[1], "tenant", "acme")
    /\ mr.Values[1].ParticipantCount = 5 /\ ~mr.Values[1].Recording
    /\ MapsTo(rr.Values[1], "tenant", "acme") /\ rr.Values[1].Published
    /\ Len(acc) = 2
    /\ acc[2].name = "bigbluebutton:acme"
    /\ SameCounters(acc[2].fields,
           [meetings |-> 1, participants |-> 5, listener_participants |-> 3,
            voice_participants |-> 3, video_participants |-> 1,
            active_recordings |-> 0, recordings |-> 1, published_recordings |-> 1])


----------------------------------------------------------------------------
(* The outcome of one cycle as a function of its inputs *)

SeqPermutations(q) == { [i \in DOMAIN q |-> q[p[i]]] : p \in Orders(DOMAIN q) }

\* what Gather emits for the responses mresp, rresp, h under the configuration
\* mds: the global measurement and the set of per-value measurements
CycleOutput(im, mds, mresp, rresp, h) ==
    IF im = "record"
    THEN LET recs == IF shouldGatherByMetadata(mds)
                     THEN GetMetadataRecords(mds, mresp, rresp, h)
                     ELSE [panic |-> FALSE, res |-> EmptyMap]
         IN  [panic |-> recs.panic,
              global |-> Measurement("bigbluebutton",
                             ToMap(NewRecordFrom(mresp.Values, rresp.Values, h))),
              perValue |-> { Measurement(MetadataMeasurementName(v),
                                         ToMap(recs.res[v])) : v \in DOMAIN recs.res }]
    ELSE LET pm == processMeetings(mds, mresp)
             pr == processRecordings(mds, rresp)
             vs == IF shouldGatherByMetadata(mds)
                   THEN DOMAIN pm.metadata \cup DOMAIN pr.metadata ELSE {}
         IN  [panic |-> pm.panic \/ pr.panic,
              global |-> process("bigbluebutton", pm.metric, pr.metric,
                                 processAPIStatus(h)),
              perValue |-> IF pm.panic \/ pr.panic THEN {}
                           ELSE { process(MetadataMeasurementName(v),
                                          MeetingsMetricAt(pm.metadata, v),
                                          RecordingsMetricAt(pr.metadata, v),
                                          processAPIStatus(h)) : v \in vs }]

\* the global measurement alone
CycleGlobal(im, mds, mresp, rresp, h) ==
    IF im = "record"
    THEN Measurement("bigbluebutton",
             ToMap(NewRecordFrom(mresp.Values, rresp.Values, h)))
    ELSE process("bigbluebutton", processMeetings(mds, mresp).metric,
                 processRecordings(mds, rresp).metric, processAPIStatus(h))

----------------------------------------------------------------------------
(* C2 *)

BothNonEmpty == Len(mr.Values) > 0 /\ Len(rr.Values) > 0

\* C2 as stated: for every pair of non-empty fetched collections, the global
\* aggregate emitted by a Gather cycle has meetings equal to the number of
\* fetched meetings and recordings equal to the number of fetched recordings.
C2_Original ==
    (GlobalEmitted /\ BothNonEmpty) =>
        /\ acc[1].fields.meetings = Len(mr.Values)
        /\ acc[1].fields.recordings = Len(rr.Values)

\* C2 amended: for every pair of non-empty fetched collections the global
\* aggregate has meetings = number of fetched meetings and recordings = number
\* of fetched recordings, except that the Gather of bigbluebutton.go reports
\* meetings = 0 when the meetings response carries the message key
\* "noMeetings" and recordings = 0 when the recordings response carries
\* "noRecordings".
C2_GlobalCounts ==
    (GlobalEmitted /\ BothNonEmpty) =>
        /\ acc[1].fields.meetings =
              IF impl = "metric" /\ mr.MessageKey = "noMeetings" THEN 0
              ELSE Len(mr.Values)
        /\ acc[1].fields.recordings =
              IF impl = "metric" /\ rr.MessageKey = "noRecordings" THEN 0
              ELSE Len(rr.Values)

C2_Witness ==
    /\ impl = "metric" /\ Succeeded /\ BothNonEmpty
    /\ mr.MessageKey = "" /\ rr.MessageKey = ""
    /\ acc[1].name = "bigbluebutton"
    /\ acc[1].fields.meetings = 1 /\ acc[1].fields.recordings = 1

----------------------------------------------------------------------------
(* C3 *)

\* C3: in the global aggregate of a cycle of the part_003 Gather, participants,
\* listener_participants, voice_participants and video_participants are the
\* sums of the counts over all fetched meetings, active_recordings is the number
\* of fetched meetings that are recording, and published_recordings is the
\* number of fetched recordings that are published.
C3_GlobalSums ==
    (impl = "record" /\ GlobalEmitted) =>
        LET c == Counters(mr.Values, DOMAIN mr.Values, rr.Values, DOMAIN rr.Values)
        IN  \A n \in CounterNames \ {"meetings", "recordings"} :
                acc[1].fields[n] = c[n]

\* the two meetings of the test data: 15, 12, 4, 1 and one of them recording
C3_Witness ==
    /\ impl = "record" /\ GlobalEmitted /\ Len(mr.Values) = 2
    /\ mr.Values[1].Recording /\ ~mr.Values[2].Recording
    /\ acc[1].fields.participants = 15
    /\ acc[1].fields.listener_participants = 12
    /\ acc[1].fields.voice_participants = 4
    /\ acc[1].fields.video_participants = 1
    /\ acc[1].fields.active_recordings = 1

----------------------------------------------------------------------------
(* C4 *)

\* C4: the measurements of a successful cycle are those of the cycle run on any
\* permutation of the meeting sequence and any permutation of the recording
\* sequence: the same global aggregate and the same set of per-value aggregates.
C4_OrderIndependent ==
    Succeeded =>
        \A pm \in SeqPermutations(mr.Values), pr \in SeqPermutations(rr.Values) :
            LET out == CycleOutput(impl, keys, [mr EXCEPT !.Values = pm],
                                   [rr EXCEPT !.Values = pr], hc)
            IN  /\ ~out.panic
                /\ out.global = acc[1]
                /\ out.perValue = PerValue

C4_Witness ==
    /\ Succeeded /\ impl = "record" /\ keys = <<"tenant">>
    /\ Len(mr.Values) = 2
    /\ mr.Values[1].ParticipantCount # mr.Values[2].ParticipantCount
    /\ MapsTo(mr.Values[1], "tenant", "acme")
    /\ MapsTo(mr.Values[2], "tenant", "beta")
    /\ Cardinality(PerValue) = 2

----------------------------------------------------------------------------
(* C5 *)

BothEmpty == Len(mr.Values) = 0 /\ Len(rr.Values) = 0

\* C5: when the fetched meeting collection and the fetched recording collection
\* are both empty, the global aggregate has every counter at zero and online
\* at 1 exactly when the health return code is "SUCCESS", and the cycle emits no
\* per-value aggregate.
C5_EmptyState ==
    (GlobalEmitted /\ BothEmpty) =>
        /\ \A n \in CounterNames : acc[1].fields[n] = 0
        /\ acc[1].fields.online = 1 <=> hc.ReturnCode = "SUCCESS"
        /\ acc[1].fields.online \in {0, 1}
        /\ PerValue = {}

C5_Witness ==
    /\ Succeeded /\ BothEmpty /\ keys = <<"tenant">>
    /\ hc.ReturnCode = "SUCCESS"
    /\ Len(acc) = 1 /\ acc[1].fields.online = 1 /\ acc[1].fields.meetings = 0

----------------------------------------------------------------------------
(* C6 *)

\* C6: the online counter of the global aggregate is 1 if and only if the
\* health check's return code is exactly "SUCCESS"; for every other return
\* code, "FAILED" and the empty string included, it is 0.
C6_OnlineIffSuccess ==
    GlobalEmitted =>
        acc[1].fields.online = IF hc.ReturnCode = "SUCCESS" THEN 1 ELSE 0

C6_Witness ==
    /\ GlobalEmitted /\ hc.ReturnCode = "" /\ acc[1].fields.online = 0

----------------------------------------------------------------------------
(* C7 *)

\* C7: with an empty configured metadata name list, a successful cycle emits
\* exactly one measurement, named "bigbluebutton" and without tags, whatever
\* metadata the fetched records carry.
C7_NoMetadataNames ==
    (Succeeded /\ keys = << >>) =>
        /\ Len(acc) = 1
        /\ acc[1].name = "bigbluebutton"
        /\ acc[1].tags = EmptyMap

C7_Witness ==
    /\ Succeeded /\ keys = << >> /\ Len(acc) = 1
    /\ Len(mr.Values) = 1 /\ MapsTo(mr.Values[1], "tenant", "acme")
    /\ Len(rr.Values) = 1 /\ MapsTo(rr.Values[1], "room", "acme")

----------------------------------------------------------------------------
(* C8 *)

\* C8: every per-value aggregate of a cycle carries the online value of the
\* global aggregate of that cycle.
C8_SameOnline ==
    GlobalEmitted => \A x \in PerValue : x.fields.online = acc[1].fields.online

C8_Witness ==
    /\ Succeeded /\ impl = "record" /\ hc.ReturnCode = "SUCCESS"
    /\ Cardinality(PerValue) = 2
    /\ \A x \in PerValue : x.fields.online = 1

----------------------------------------------------------------------------
(* C9 *)

Without(q, i) == [k \in 1..(Len(q) - 1) |-> IF k < i THEN q[k] ELSE q[k + 1]]

\* the fields of the per-value measurement of v among ms, zero when there is none
FieldsOf(ms, v) ==
    IF \E x \in ms : x.name = MetadataMeasurementName(v)
    THEN (CHOOSE x \in ms : x.name = MetadataMeasurementName(v)).fields
    ELSE ToMap(NewRecord)

\* C9: a meeting whose metadata carries two configured metadata names with two
\* different values contributes exactly once to the aggregate of each of the
\* two values, and once to the global aggregate: against the cycle without
\* that meeting, each of the two aggregates and the global one have meetings
\* one higher and participants higher by the meeting's participant count.
C9_TwoNamesTwoValues ==
    (Succeeded /\ keys = <<"tenant", "room">> /\ mr.MessageKey = "") =>
        \A i \in DOMAIN mr.Values :
            LET m == mr.Values[i]
                p == Parsed(m)
                rest == CycleOutput(impl, keys,
                            [mr EXCEPT !.Values = Without(mr.Values, i)], rr, hc)
            IN  ({"tenant", "room"} \subseteq DOMAIN p /\ p["tenant"] # p["room"]) =>
                    /\ acc[1].fields.meetings = rest.global.fields.meetings + 1
                    /\ \A v \in {p["tenant"], p["room"]} :
                        /\ FieldsOf(PerValue, v).meetings =
                              FieldsOf(rest.perValue, v).meetings + 1
                        /\ FieldsOf(PerValue, v).participants =
                              FieldsOf(rest.perValue, v).participants
                                  + m.ParticipantCount

----------------------------------------------------------------------------
(* C10 *)

C10_MeetingPairs(v) ==
    { q \in (DOMAIN mr.Values) \X (DOMAIN keys) :
        MapsTo(mr.Values[q[1]], keys[q[2]], v) }

C10_RecordingPairs(v) ==
    { q \in (DOMAIN rr.Values) \X (DOMAIN keys) :
        MapsTo(rr.Values[q[1]], keys[q[2]], v) }

C10_Counters(P, Q) ==
    [meetings |-> Cardinality(P),
     participants |-> SumOver(P, [q \in P |-> mr.Values[q[1]].ParticipantCount]),
     listener_participants |-> SumOver(P, [q \in P |-> mr.Values[q[1]].ListenerCount]),
     voice_participants |->
         SumOver(P, [q \in P |-> mr.Values[q[1]].VoiceParticipantCount]),
     video_participants |-> SumOver(P, [q \in P |-> mr.Values[q[1]].VideoCount]),
     active_recordings |-> Cardinality({q \in P : mr.Values[q[1]].Recording}),
     recordings |-> Cardinality(Q),
     published_recordings |-> Cardinality({q \in Q : rr.Values[q[1]].Published})]

\* C10: in the part_003 Gather the per-value buckets are keyed by the metadata
\* value alone: the cycle emits one aggregate for each value v that some record
\* carries under some entry of the configured name list, and that aggregate
\* counts every (record, entry of the configured name list) pair whose metadata
\* maps the entry's name to v, whichever the name.
C10_KeyedByValue ==
    (impl = "record" /\ Succeeded) =>
      /\ \A x \in PerValue :
            \E v \in MetadataValues : x.name = MetadataMeasurementName(v)
      /\ \A v \in MetadataValues :
            LET P == C10_MeetingPairs(v)
                Q == C10_RecordingPairs(v)
            IN  IF P = {} /\ Q = {}
                THEN PerValueOf(v) = {}
                ELSE /\ Cardinality({ i \in 2..Len(acc) :
                            acc[i].name = MetadataMeasurementName(v) }) = 1
                     /\ \A x \in PerValueOf(v) :
                            SameCounters(x.fields, C10_Counters(P, Q))

\* a meeting with tenant = acme and a meeting with room = acme share one bucket
C10_Witness ==
    /\ impl = "record" /\ Succeeded /\ keys = <<"tenant", "room">>
    /\ Len(mr.Values) = 2
    /\ MapsTo(mr.Values[1], "tenant", "acme") /\ DOMAIN Parsed(mr.Values[1]) = {"tenant"}
    /\ MapsTo(mr.Values[2], "room", "acme") /\ DOMAIN Parsed(mr.Values[2]) = {"room"}
    /\ Len(acc) = 2
    /\ acc[2].name = "bigbluebutton:acme"
    /\ acc[2].fields.meetings = 2

----------------------------------------------------------------------------
(* C11 *)

\* the record carries none of the configured metadata names
Unmatched(x) == \A j \in DOMAIN keys : keys[j] \notin DOMAIN Parsed(x)

\* C11: with a non-empty configured name list, a fetched meeting or recording
\* whose metadata has no entry for any configured name changes the global
\* aggregate only: against the cycle without that record the set of per-value
\* aggregates is the same (no bucket created, none changed), while the global
\* meetings (recordings) counter is one higher wherever the list is read.
C11_GlobalOnly ==
    (Succeeded /\ Len(keys) > 0) =>
        /\ \A i \in DOMAIN mr.Values :
              Unmatched(mr.Values[i]) =>
                LET rest == CycleOutput(impl, keys,
                                [mr EXCEPT !.Values = Without(mr.Values, i)], rr, hc)
                IN  /\ ~rest.panic
                    /\ rest.perValue = PerValue
                    /\ mr.MessageKey = "" =>
                          acc[1].fields.meetings = rest.global.fields.meetings + 1
        /\ \A j \in DOMAIN rr.Values :
              Unmatched(rr.Values[j]) =>
                LET rest == CycleOutput(impl, keys, mr,
                                [rr EXCEPT !.Values = Without(rr.Values, j)], hc)
                IN  /\ ~rest.panic
                    /\ rest.perValue = PerValue
                    /\ rr.MessageKey = "" =>
                          acc[1].fields.recordings = rest.global.fields.recordings + 1

\* a meeting with tenant = acme and a meeting with no tenant: one bucket, with
\* one meeting, and two meetings in the global aggregate
C11_Witness ==
    /\ impl = "record" /\ Succeeded /\ keys = <<"tenant">>
    /\ Len(mr.Values) = 2
    /\ MapsTo(mr.Values[1], "tenant", "acme")
    /\ Unmatched(mr.Values[2]) /\ DOMAIN Parsed(mr.Values[2]) = {"room"}
    /\ Len(acc) = 2
    /\ acc[1].fields.meetings = 2
    /\ acc[2].fields.meetings = 1

----------------------------------------------------------------------------
(* C12 *)

\* C12 as stated: the global aggregate of a cycle is the same for every value
\* of the configured metadata name list, and each fetched meeting and each
\* fetched recording is counted in it exactly once, whether or not it matches
\* a configured name.
C12_Original ==
    GlobalEmitted =>
        /\ \A ks \in KeyLists : CycleGlobal(impl, ks, mr, rr, hc) = acc[1]
        /\ acc[1].fields.meetings = Len(mr.Values)
        /\ acc[1].fields.recordings = Len(rr.Values)

\* C12 amended: the global aggregate of a cycle is the same for every value of
\* the configured metadata name list, and each fetched meeting and recording is
\* counted in it exactly once, matching a configured name or not, except that
\* the Gather of bigbluebutton.go counts no meeting under the message key
\* "noMeetings" and no recording under "noRecordings".
C12_SameForEveryKeyList ==
    GlobalEmitted =>
        /\ \A ks \in KeyLists : CycleGlobal(impl, ks, mr, rr, hc) = acc[1]
        /\ acc[1].fields.meetings =
              IF impl = "metric" /\ mr.MessageKey = "noMeetings" THEN 0
              ELSE Len(mr.Values)
        /\ acc[1].fields.recordings =
              IF impl = "metric" /\ rr.MessageKey = "noRecordings" THEN 0
              ELSE Len(rr.Values)

\* one meeting matching the configured name and one recording that does not
C12_Witness ==
    /\ impl = "metric" /\ Succeeded /\ keys = <<"tenant">>
    /\ mr.MessageKey = "" /\ rr.MessageKey = ""
    /\ Len(mr.Values) = 1 /\ MapsTo(mr.Values[1], "tenant", "acme")
    /\ Len(rr.Values) = 1 /\ Unmatched(rr.Values[1])
    /\ acc[1].fields.meetings = 1 /\ acc[1].fields.recordings = 1
    /\ CycleGlobal(impl, << >>, mr, rr, hc) = acc[1]

----------------------------------------------------------------------------
(* C13 *)

\* the values some fetched record carries under some configured name
MatchedValues ==
    { v \in MetadataValues :
        \/ \E i \in DOMAIN mr.Values, j \in DOMAIN keys : MapsTo(mr.Values[i], keys[j], v)
        \/ \E i \in DOMAIN rr.Values, j \in DOMAIN keys : MapsTo(rr.Values[i], keys[j], v) }

\* the values whose bucket the cycle builds: the metric Gather reads no list
\* under "noMeetings" / "noRecordings"
BucketValues ==
    { v \in MetadataValues :
        \/ /\ ~(impl = "metric" /\ mr.MessageKey = "noMeetings")
           /\ \E i \in DOMAIN mr.Values, j \in DOMAIN keys : MapsTo(mr.Values[i], keys[j], v)
        \/ /\ ~(impl = "metric" /\ rr.MessageKey = "noRecordings")
           /\ \E i \in DOMAIN rr.Values, j \in DOMAIN keys : MapsTo(rr.Values[i], keys[j], v) }

\* C13: a Gather call that returned an error has emitted no measurement at
\* all; a Gather call that returned nil has emitted the global measurement of
\* the cycle first and then one measurement for each per-value bucket of the
\* cycle, each exactly once, with the fields the cycle computes.
C13_NoPartialEmission ==
    /\ (pc = "returned" /\ ret = "error") => acc = << >>
    /\ Succeeded =>
          LET out == CycleOutput(impl, keys, mr, rr, hc)
              bv == BucketValues
          IN  /\ Len(acc) = 1 + Cardinality(bv)
              /\ acc[1] = out.global
              /\ \A v \in bv :
                    Cardinality({ i \in 2..Len(acc) :
                        acc[i].name = "bigbluebutton:" \o v }) = 1
              /\ PerValue = out.perValue

\* the health fetch fails after a meeting and a recording have been fetched
C13_Witness ==
    /\ pc = "returned" /\ ret = "error" /\ keys = <<"tenant">>
    /\ Len(mr.Values) = 1 /\ MapsTo(mr.Values[1], "tenant", "acme")
    /\ Len(rr.Values) = 1
    /\ hc = NoHealthCheck
    /\ acc = << >>

----------------------------------------------------------------------------
(* C14 *)

\* the names of the measurements emitted so far, in order
Names == [i \in DOMAIN acc |-> acc[i].name]

----------------------------------------------------------------------------
(* C15 *)

\* C15: a Gather call of part_003 that ends at a failed fetch (no health check
\* was obtained: the HTTP client returned an error, the status was not 200, or
\* the envelope could not be decoded) has returned a non-nil error, has not
\* crashed, and has run no aggregation: nothing was emitted.
C15_FetchFailureReturnsError ==
    (impl = "record" /\ pc \in {"returned", "crashed"} /\ hc = NoHealthCheck) =>
        /\ pc = "returned"
        /\ ret = "error"
        /\ acc = << >>

----------------------------------------------------------------------------
(* C16 *)

\* C16: with an empty secret key Init returns an error before it computes any
\* URL or creates the HTTP client, and no Gather cycle ever starts on that
\* plugin: the missing key is found at initialization, never during a cycle.
C16_SecretKeyCheckedAtInit ==
    secretKey = "" =>
        /\ pc \in {"new", "initFailed"}
        /\ urls = "unset"
        /\ client = "nil"
        /\ acc = << >> /\ ret = "none"

C16_Witness ==
    /\ secretKey = "" /\ pc = "initFailed"
    /\ urls = "unset" /\ client = "nil"

----------------------------------------------------------------------------
(* C17 *)

\* the meetings and the recordings this cycle reads: the metric Gather reads no
\* list under "noMeetings" / "noRecordings"
MeetingsRead ==
    IF impl = "metric" /\ mr.MessageKey = "noMeetings" THEN {} ELSE DOMAIN mr.Values

RecordingsRead ==
    IF impl = "metric" /\ rr.MessageKey = "noRecordings" THEN {} ELSE DOMAIN rr.Values

\* C17: a cycle that follows earlier cycles of the same plugin instance emits
\* what its own three responses and the configuration determine, and nothing
\* else: the global counters are the counts and sums over the records of this
\* cycle, online is that of this cycle's health check, there is exactly one
\* per-value measurement for each value matched in this cycle, and (part_003)
\* each per-value aggregate counts the matches of this cycle only.
C17_NoCarryOver ==
    (polled /\ Succeeded) =>
      LET bv == BucketValues
      IN
        /\ SameCounters(acc[1].fields,
               Counters(mr.Values, MeetingsRead, rr.Values, RecordingsRead))
        /\ acc[1].fields.online = OnlineOf(hc)
        /\ Len(acc) = 1 + Cardinality(bv)
        /\ { x.name : x \in PerValue } = { "bigbluebutton:" \o v : v \in bv }
        /\ impl = "record" =>
              \A v \in bv : \A x \in PerValueOf(v) :
                  /\ SameCounters(x.fields,
                         C10_Counters(C10_MeetingPairs(v), C10_RecordingPairs(v)))
                  /\ x.fields.online = OnlineOf(hc)

\* a cycle with no record at all, after a cycle that has emitted
C17_Witness ==
    /\ polled /\ Succeeded /\ impl = "record" /\ keys = <<"tenant">>
    /\ BothEmpty
    /\ Len(acc) = 1
    /\ acc[1].fields.participants = 0

----------------------------------------------------------------------------
(* C18 *)

NineFields == CounterNames \cup {"online"}

\* the aggregate read back from a field mapping
FromMap(fields) ==
    [Meetings |-> fields.meetings,
     Participants |-> fields.participants,
     ListenerParticipants |-> fields.listener_participants,
     VoiceParticipants |-> fields.voice_participants,
     VideoParticipants |-> fields.video_participants,
     ActiveRecordings |-> fields.active_recordings,
     Recordings |-> fields.recordings,
     PublishedRecordings |-> fields.published_recordings,
     Online |-> fields.online]

\* the aggregate the i-th measurement of the cycle was built from
AggregateOf(i) ==
    LET v == CHOOSE v \in MetadataValues : acc[i].name = "bigbluebutton:" \o v
    IN  IF impl = "record"
        THEN IF i = 1 THEN NewRecordFrom(mr.Values, rr.Values, hc)
             ELSE GetMetadataRecords(keys, mr, rr, hc).res[v]
        ELSE LET m == IF i = 1 THEN mm.metric ELSE MeetingsMetricAt(mm.metadata, v)
                 r == IF i = 1 THEN rm.metric ELSE RecordingsMetricAt(rm.metadata, v)
             IN  [Meetings |-> m.Meetings,
                  Participants |-> m.Participants,
                  ListenerParticipants |-> m.ListenerParticipants,
                  VoiceParticipants |-> m.VoiceParticipants,
                  VideoParticipants |-> m.VideoParticipants,
                  ActiveRecordings |-> m.ActiveRecordings,
                  Recordings |-> r.Recordings,
                  PublishedRecordings |-> r.PublishedRecordings,
                  Online |-> processAPIStatus(hc).Online]

\* C18: every measurement emitted by Gather, global or per-value, has exactly
\* the nine fields meetings, participants, listener_participants,
\* voice_participants, video_participants, active_recordings, recordings,
\* published_recordings and online, and reading the aggregate back from the
\* field mapping gives the aggregate the measurement was built from.
C18_NineFieldsRoundTrip ==
    \A i \in DOMAIN acc :
        /\ DOMAIN acc[i].fields = NineFields
        /\ FromMap(acc[i].fields) = AggregateOf(i)

\* the global aggregate 5/3/3/1 and a per-value aggregate, both emitted
C18_Witness ==
    /\ impl = "record" /\ Succeeded /\ Len(acc) = 2
    /\ acc[1].fields.voice_participants = 3 /\ acc[1].fields.video_participants = 1
    /\ acc[2].fields.voice_participants = 3 /\ acc[2].fields.video_participants = 1
    /\ acc[1].fields.online = 1

----------------------------------------------------------------------------
(* C19 *)

----------------------------------------------------------------------------
(* C20 *)

\* C20: with gather_by_metadata = [k] and fetched records that carry the value
\* v for k (and no other value), a successful cycle emits exactly two
\* measurements, in this order: "bigbluebutton" with no tags, then one
\* measurement named k that carries the tag k = v.
C20_NamedAndTaggedByKey ==
    \A v \in MetadataValues :
        (Succeeded /\ Len(keys) = 1 /\ MatchedValues = {v}) =>
            /\ Len(acc) = 2
            /\ acc[1].name = "bigbluebutton" /\ acc[1].tags = EmptyMap
            /\ acc[2].name = keys[1]
            /\ acc[2].tags = [k \in {keys[1]} |-> v]

(***************************************************************************)
(* xmlToMap called on its own: every token stream the decoder can yield    *)
(* for a metadata fragment of at most MaxTokens tokens.                    *)
(***************************************************************************)
MaxTokens == 6

\* the rest of the plugin is untouched while a function is called on its own
Standalone ==
    /\ impl = "none"
    /\ keys = << >>
    /\ secretKey = ""
    /\ urls = "unset"
    /\ client = "nil"
    /\ polled = FALSE
    /\ pc = "new"
    /\ mr = NoResponse
    /\ rr = NoResponse
    /\ hc = NoHealthCheck
    /\ mm = NoMetric
    /\ rm = NoRecMetric
    /\ acc = << >>
    /\ ret = "none"

\* p.Token() of xml.NewDecoder: text, start tags, end tags that close the
\* innermost open element; any other input ends the stream with an error
RECURSIVE TokenStreams(_, _)
TokenStreams(n, open) ==
    IF n = 0
    THEN IF open = << >> THEN { << >> } ELSE {}
    ELSE (IF open = << >> THEN { << >> } ELSE {})
         \cup { <<SyntaxError>> }
         \cup { <<CharData(s)>> \o t :
                  s \in MetadataValues, t \in TokenStreams(n - 1, open) }
         \cup UNION { { <<StartElement(e)>> \o t :
                          t \in TokenStreams(n - 1, Append(open, e)) } :
                      e \in MetadataNames }
         \cup (IF open = << >> THEN {}
               ELSE { <<EndElement(open[Len(open)])>> \o t :
                        t \in TokenStreams(n - 1, SubSeq(open, 1, Len(open) - 1)) })

InitXml ==
    /\ input \in { [fn |-> "xmlToMap", r |-> t] : t \in TokenStreams(MaxTokens, << >>) }
    /\ output = NotCalled
    /\ Standalone

\* one call xmlToMap(r)
xmlToMapCall ==
    /\ input.fn = "xmlToMap"
    /\ output = NotCalled
    /\ output' = xmlToMap(input.r)
    /\ UNCHANGED <<input, impl, keys, secretKey, urls, client, polled, pc,
                   mr, rr, hc, mm, rm, acc, ret>>

NextXml == xmlToMapCall

SpecXml == InitXml /\ [][NextXml]_vars

\* xmlToMap has returned or panicked on the stream in input
xmlToMapDone == input.fn = "xmlToMap" /\ output # NotCalled

\* C21: xmlToMap never crashes, whatever the fragment; in particular an
\* element closed before any text was read is parsed without a panic.
C21_NeverCrashes == xmlToMapDone => ~output.panic

\* the decoder reported an error somewhere in the stream
DecoderError == \E i \in 1..Len(input.r) : input.r[i].type = "SyntaxError"

\* C22: malformed metadata fails closed: when the decoder reports an error
\* anywhere in the fragment, the mapping xmlToMap returns is the empty one: no
\* binding made before the error survives. (Stated for the calls that return;
\* the call that panics instead is the case of C21.)
C22_FailsClosed ==
    (xmlToMapDone /\ DecoderError /\ ~output.panic) => output.m = EmptyMap

----------------------------------------------------------------------------
(* C23 *)

\* the response resp with the metadata of every record removed
Blank(resp) ==
    [resp EXCEPT !.Values =
        [i \in DOMAIN resp.Values |-> [resp.Values[i] EXCEPT !.Metadata = << >>]]]

\* C23: with an empty metadata name list the metadata of the fetched records is
\* never parsed: a step of the cycle ends in a crash only where its fetch gave
\* no response, and a cycle that returns nil has emitted exactly the global
\* measurement it emits for the same records without their metadata.
C23_MetadataNeverRead ==
    [][ keys = << >> =>
          /\ pc' = "crashed" =>
                \/ pc = "idle" /\ mr' = NoResponse
                \/ pc = "meetings" /\ rr' = NoResponse
                \/ pc = "recordings" /\ hc' = NoHealthCheck
          /\ (pc' = "returned" /\ ret' = "nil") =>
                acc' = <<CycleGlobal(impl, keys, Blank(mr'), Blank(rr'), hc')>> ]_vars

(***************************************************************************)
(* The accumulation functions called on their own: one record added to the *)
(* per-value storage of bigbluebutton.go, and a Record of part_001 fed     *)
(* with two batches of at most MaxBatch records.                           *)
(***************************************************************************)
MaxBatch == 2

\* meetings and recordings after xmlToMap has filled ParsedMetadata
ParsedMeetings ==
    { ParseMetadata(m).x : m \in { x \in MeetingSet : ~ParseMetadata(x).panic } }

ParsedRecordings ==
    { ParseMetadata(r).x : r \in { x \in RecordingSet : ~ParseMetadata(x).panic } }

\* the storage a record is added to: NewMetadataMeetingMetric(), or the map
\* after an earlier record has created the bucket of acme
MeetingStorages == { EmptyMap, "acme" :> NewMeetingMetric }

RecordingStorages == { EmptyMap, "acme" :> NewRecordingMetric }

\* batches of meetings and of recordings; their metadata plays no part
MeetingBatches ==
    SeqsUpTo({ m \in MeetingSet : m.Metadata = << >> }, MaxBatch)

RecordingBatches ==
    SeqsUpTo({ r \in RecordingSet : r.Metadata = << >> }, MaxBatch)

InitCalls ==
    /\ input \in
          { [fn |-> "gatherMeetingsByMetadata", mds |-> k, values |-> s, record |-> m] :
                k \in KeyLists \ { << >> }, s \in MeetingStorages, m \in ParsedMeetings }
          \cup
          { [fn |-> "gatherRecordingsByMetadata", mds |-> k, values |-> s, record |-> r] :
                k \in KeyLists \ { << >> }, s \in RecordingStorages, r \in ParsedRecordings }
          \cup
          { [fn |-> "ComputeMeetingMetrics", first |-> a, second |-> b] :
                a \in MeetingBatches, b \in MeetingBatches }
          \cup
          { [fn |-> "ComputeRecordingMetrics", first |-> a, second |-> b] :
                a \in RecordingBatches, b \in RecordingBatches }
    /\ output = NotCalled
    /\ Standalone

\* b.gatherMeetingsByMetadata(values, meeting): values is updated in place
gatherMeetingsByMetadataCall ==
    /\ input.fn = "gatherMeetingsByMetadata"
    /\ output = NotCalled
    /\ output' = [values |->
                    gatherMeetingsByMetadata(input.mds, input.values, input.record)]
    /\ UNCHANGED <<input, impl, keys, secretKey, urls, client, polled, pc,
                   mr, rr, hc, mm, rm, acc, ret>>

\* b.gatherRecordingsByMetadata(values, recording)
gatherRecordingsByMetadataCall ==
    /\ input.fn = "gatherRecordingsByMetadata"
    /\ output = NotCalled
    /\ output' = [values |->
                    gatherRecordingsByMetadata(input.mds, input.values, input.record)]
    /\ UNCHANGED <<input, impl, keys, secretKey, urls, client, polled, pc,
                   mr, rr, hc, mm, rm, acc, ret>>

\* rec.ComputeMeetingMetrics(first); rec.ComputeMeetingMetrics(second) on one
\* new Record, and rec.ComputeMeetingMetrics(first ++ second) on another
ComputeMeetingMetricsCall ==
    /\ input.fn = "ComputeMeetingMetrics"
    /\ output = NotCalled
    /\ output' =
          [batched |-> ComputeMeetingMetrics(
                           ComputeMeetingMetrics(NewRecord, input.first), input.second),
           whole |-> ComputeMeetingMetrics(NewRecord, input.first \o input.second)]
    /\ UNCHANGED <<input, impl, keys, secretKey, urls, client, polled, pc,
                   mr, rr, hc, mm, rm, acc, ret>>

\* the same for rec.ComputeRecordingMetrics
ComputeRecordingMetricsCall ==
    /\ input.fn = "ComputeRecordingMetrics"
    /\ output = NotCalled
    /\ output' =
          [batched |-> ComputeRecordingMetrics(
                           ComputeRecordingMetrics(NewRecord, input.first), input.second),
           whole |-> ComputeRecordingMetrics(NewRecord, input.first \o input.second)]
    /\ UNCHANGED <<input, impl, keys, secretKey, urls, client, polled, pc,
                   mr, rr, hc, mm, rm, acc, ret>>

NextCalls ==
    \/ gatherMeetingsByMetadataCall
    \/ gatherRecordingsByMetadataCall
    \/ ComputeMeetingMetricsCall
    \/ ComputeRecordingMetricsCall

SpecCalls == InitCalls /\ [][NextCalls]_vars

----------------------------------------------------------------------------
(* C24 *)

\* how many configured names the record maps to the value v
C24_Matches(v) ==
    Cardinality({ j \in DOMAIN input.mds :
        /\ input.mds[j] \in DOMAIN input.record.ParsedMetadata
        /\ input.record.ParsedMetadata[input.mds[j]] = v })

\* the bucket of v before the call; a missing bucket is created at zero
C24_Before(v, zero) == IF v \in DOMAIN input.values THEN input.values[v] ELSE zero

\* C24: after gatherMeetingsByMetadata(values, meeting) returns, the bucket
\* stored in values under each metadata value a configured name maps the meeting
\* to has been accumulated with the meeting: meetings +1, the four participant
\* counters increased by the meeting's counts, active_recordings +1 if it is
\* recording (once per configured name that maps to the value); likewise
\* gatherRecordingsByMetadata stores recordings +1 and published_recordings +1
\* if published.
C24_BucketAccumulated ==
    /\ (input.fn = "gatherMeetingsByMetadata" /\ output # NotCalled) =>
          \A v \in MetadataValues : C24_Matches(v) > 0 =>
              /\ v \in DOMAIN output.values
              /\ LET old == C24_Before(v, NewMeetingMetric)
                     new == output.values[v]
                     n == C24_Matches(v)
                     m == input.record
                 IN  /\ new.Meetings = old.Meetings + n
                     /\ new.Participants = old.Participants + n * m.ParticipantCount
                     /\ new.ListenerParticipants =
                            old.ListenerParticipants + n * m.ListenerCount
                     /\ new.VoiceParticipants =
                            old.VoiceParticipants + n * m.VoiceParticipantCount
                     /\ new.VideoParticipants = old.VideoParticipants + n * m.VideoCount
                     /\ new.ActiveRecordings =
                            old.ActiveRecordings + (IF m.Recording THEN n ELSE 0)
    /\ (input.fn = "gatherRecordingsByMetadata" /\ output # NotCalled) =>
          \A v \in MetadataValues : C24_Matches(v) > 0 =>
              /\ v \in DOMAIN output.values
              /\ LET old == C24_Before(v, NewRecordingMetric)
                     new == output.values[v]
                     n == C24_Matches(v)
                 IN  /\ new.Recordings = old.Recordings + n
                     /\ new.PublishedRecordings =
                            old.PublishedRecordings
                              + (IF input.record.Published THEN n ELSE 0)

----------------------------------------------------------------------------
(* C25 *)

Ended == pc \in {"returned", "crashed"}

\* C25: within one Gather cycle the steps happen in this order: fetch meetings,
\* fetch recordings, fetch health status, emit the global measurement, emit the
\* per-value measurements. The meetings are fetched first, the recordings only
\* after the meetings, the health status only after the recordings; a step whose
\* fetch fails ends the cycle with no later response fetched and nothing
\* emitted; measurements are emitted only in the step whose health fetch
\* succeeded, the global one first; a cycle that has ended fetches nothing more.
C25_StepOrder ==
    [][ /\ pc' = "meetings" => pc = "idle"
        /\ pc' = "recordings" => pc = "meetings"
        /\ (hc' # hc /\ hc' # NoHealthCheck) => pc = "recordings"
        /\ pc = "idle" =>
              \/ pc' = "meetings" /\ acc' = << >>
              \/ Ended' /\ rr' = NoResponse /\ hc' = NoHealthCheck /\ acc' = << >>
        /\ pc = "meetings" =>
              \/ pc' = "recordings" /\ acc' = << >>
              \/ Ended' /\ hc' = NoHealthCheck /\ acc' = << >>
        /\ pc = "recordings" =>
              /\ Ended'
              /\ hc' = NoHealthCheck => (acc' = << >> /\ ret' # "nil")
        /\ acc' # << >> =>
              /\ pc = "recordings" /\ acc = << >> /\ hc' # NoHealthCheck
              /\ acc'[1].name = "bigbluebutton"
              /\ \A i \in 2..Len(acc') : acc'[i].name # "bigbluebutton"
        /\ Ended => (pc' = "idle" /\ acc' = << >>
                       /\ mr' = NoResponse /\ rr' = NoResponse /\ hc' = NoHealthCheck)
      ]_vars

\* a cycle that fetched all three responses and emitted the global measurement
\* followed by two per-value measurements
C25_Witness ==
    /\ Succeeded /\ hc # NoHealthCheck
    /\ Len(mr.Values) > 0 /\ Len(rr.Values) > 0
    /\ Len(acc) = 3
    /\ acc[1].name = "bigbluebutton"
    /\ acc[2].name # "bigbluebutton" /\ acc[3].name # "bigbluebutton"

----------------------------------------------------------------------------
(* C26 *)

\* how many emitted measurements carry the name n
Emitted(n) == Cardinality({ i \in DOMAIN acc : acc[i].name = n })

\* the values some meeting (some recording) maps a configured name to
C26_MeetingValues(read) ==
    { v \in MetadataValues :
        read /\ \E i \in DOMAIN mr.Values, j \in DOMAIN keys :
                    MapsTo(mr.Values[i], keys[j], v) }

C26_RecordingValues(read) ==
    { v \in MetadataValues :
        read /\ \E i \in DOMAIN rr.Values, j \in DOMAIN keys :
                    MapsTo(rr.Values[i], keys[j], v) }

C26_OncePerValue(MV, RV) ==
    /\ Emitted("bigbluebutton") = 1
    /\ Len(acc) = 1 + Cardinality(MV \cup RV)
    /\ \A v \in MetadataValues :
          /\ Emitted("bigbluebutton:" \o v) = IF v \in MV \cup RV THEN 1 ELSE 0
          /\ \A i \in 2..Len(acc) : acc[i].name = "bigbluebutton:" \o v =>
                /\ v \notin MV =>
                      /\ acc[i].fields.meetings = 0
                      /\ acc[i].fields.participants = 0
                      /\ acc[i].fields.listener_participants = 0
                      /\ acc[i].fields.voice_participants = 0
                      /\ acc[i].fields.video_participants = 0
                      /\ acc[i].fields.active_recordings = 0
                /\ v \notin RV =>
                      /\ acc[i].fields.recordings = 0
                      /\ acc[i].fields.published_recordings = 0

\* C26 as stated: a successful cycle with a non-empty metadata name list emits
\* exactly one global measurement and exactly one per-value measurement for each
\* distinct value matched by at least one meeting or recording; a value matched
\* only by recordings has zero meeting counters, a value matched only by
\* meetings zero recording counters, a value matched by both is emitted once.
C26_Original ==
    (Succeeded /\ Len(keys) > 0) =>
        C26_OncePerValue(C26_MeetingValues(TRUE), C26_RecordingValues(TRUE))

\* C26 amended: the same, where the Gather of bigbluebutton.go takes no value
\* from the meetings of a response keyed "noMeetings" nor from the recordings
\* of a response keyed "noRecordings".
C26_OncePerValueRead ==
    (Succeeded /\ Len(keys) > 0) =>
        C26_OncePerValue(
            C26_MeetingValues(~(impl = "metric" /\ mr.MessageKey = "noMeetings")),
            C26_RecordingValues(~(impl = "metric" /\ rr.MessageKey = "noRecordings")))

\* acme is matched by a meeting and by a recording, beta by a recording only
C26_Witness ==
    /\ Succeeded /\ keys = <<"tenant">>
    /\ mr.MessageKey = "" /\ rr.MessageKey = ""
    /\ Len(mr.Values) = 1 /\ Len(rr.Values) = 1
    /\ MapsTo(mr.Values[1], "tenant", "acme")
    /\ MapsTo(rr.Values[1], "tenant", "acme")
    /\ Len(acc) = 2
    /\ acc[2].name = "bigbluebutton:acme"

----------------------------------------------------------------------------
(* C27 *)

\* the tokens the decoder yields before its first error
C27_Read ==
    LET r == input.r
        errors == { i \in DOMAIN r : r[i].type = "SyntaxError" }
    IN  IF errors = {} THEN r
        ELSE SubSeq(r, 1, (CHOOSE i \in errors : \A k \in errors : i <= k) - 1)

\* positions of the closing tags, and of the text tokens before position i
C27_Closings(r) == { i \in DOMAIN r : r[i].type = "EndElement" }

C27_TextsBefore(r, i) == { j \in 1..(i - 1) : r[j].type = "CharData" }

Last(S) == CHOOSE i \in S : \A k \in S : k <= i

\* C27: for every element closed in a metadata fragment, xmlToMap binds the
\* element's local name to the most recent text token seen before the closing
\* tag in the whole fragment, whether or not that text lies inside the element
\* (the buffer of seen text is never cleared); a later closing tag with the
\* same local name overwrites the binding. Stated for the fragments where some
\* text precedes every closing tag.
C27_MostRecentText ==
    xmlToMapDone =>
        LET r == C27_Read
            ends == C27_Closings(r)
        IN  (\A i \in ends : C27_TextsBefore(r, i) # {}) =>
              /\ ~output.panic
              /\ DOMAIN output.m = { r[i].name : i \in ends }
              /\ \A n \in DOMAIN output.m :
                    LET close == Last({ i \in ends : r[i].name = n })
                    IN  output.m[n] = r[Last(C27_TextsBefore(r, close))].text

\* <tenant>acme<tenant/>beta</tenant>: the inner element has no text of its
\* own and takes acme, the outer closing tag then overwrites tenant with beta
C27_Witness ==
    /\ xmlToMapDone /\ ~output.panic
    /\ \E i, k \in C27_Closings(input.r) :
          /\ i < k /\ input.r[i].name = input.r[k].name
          /\ input.r[i - 1].type = "StartElement"
          /\ input.r[Last(C27_TextsBefore(input.r, i))].text = "acme"
          /\ input.r[Last(C27_TextsBefore(input.r, k))].text = "beta"
          /\ output.m[input.r[k].name] = "beta"

----------------------------------------------------------------------------
(* C28 *)

\* C28: accumulation is associative over batches: ComputeMeetingMetrics applied
\* to one Record with a batch A and then with a batch B yields the same Record
\* as applied once with A followed by B; the same holds for
\* ComputeRecordingMetrics, including when one of the batches is empty.
C28_BatchesAssociative ==
    (input.fn \in {"ComputeMeetingMetrics", "ComputeRecordingMetrics"}
        /\ output # NotCalled) => output.batched = output.whole

----------------------------------------------------------------------------
(* C29 *)

\* C29: when the meetings response carries the message key "noMeetings",
\* processMeetings returns all-zero meeting counters and an empty per-value map
\* without looking at the meeting list, even if that list is not empty (so no
\* metadata of it can make the step crash); processRecordings does the same for
\* the message key "noRecordings".
C29_NoMeetingsKey ==
    [][ impl = "metric" =>
          /\ (pc = "idle" /\ mr'.MessageKey = "noMeetings") =>
                /\ pc' = "meetings"
                /\ mm' = [metric |-> NewMeetingMetric, metadata |-> EmptyMap]
          /\ (pc = "meetings" /\ rr'.MessageKey = "noRecordings") =>
                /\ pc' = "recordings"
                /\ rm' = [metric |-> NewRecordingMetric, metadata |-> EmptyMap]
      ]_vars

\* a "noMeetings" response that lists two meetings of tenant acme, one of them
\* with a fragment xmlToMap panics on: zero counters, no bucket, and the global
\* measurement of the cycle counts no meeting
C29_Witness ==
    /\ impl = "metric" /\ Succeeded /\ keys = <<"tenant">>
    /\ mr.MessageKey = "noMeetings" /\ Len(mr.Values) = 2
    /\ MapsTo(mr.Values[1], "tenant", "acme")
    /\ xmlToMap(mr.Values[2].Metadata).panic
    /\ mm = [metric |-> NewMeetingMetric, metadata |-> EmptyMap]
    /\ acc[1].fields.meetings = 0 /\ acc[1].fields.participants = 0
    /\ Len(acc) = 1

----------------------------------------------------------------------------
(* C30 *)

\* C30: a per-value aggregate returned by GetMetadataRecords never exceeds the
\* global aggregate of the same cycle: for every value, its meetings,
\* participant counters, active_recordings, recordings and published_recordings
\* are at most the global ones, for every configured name list.
C30_PerValueAtMostGlobal ==
    (impl = "record" /\ Succeeded /\ Len(keys) > 0) =>
        \A i \in 2..Len(acc) :
            \A c \in CounterNames : acc[i].fields[c] <= acc[1].fields[c]

====
